---- MODULE Spec2Model ----
(***************************************************************************)
(* Detox pipeline of services/backend: the accept endpoint, the background *)
(* run, DetoxPipeline.process and its stages, the status endpoint, over a  *)
(* transactional store of detox_items rows.                                *)
(*                                                                         *)
(* Scores and confidences are fixed-point, in hundredths (0.8 is 80).      *)
(* A text is a sequence of one-character strings.                          *)
(* get_db (db/config.py) is taken as the async context manager that the    *)
(* handlers' "async with" and Depends use it as.                           *)
(***************************************************************************)
EXTENDS Integers, Sequences, FiniteSets, TLC

VARIABLES store, run, session, response, memeQueue, statusResp, router, trigger,
          vector, masking

vars == <<store, run, session, response, memeQueue, statusResp, router, trigger,
          vector, masking>>

----------------------------------------------------------------------------
(* Bounds *)

\* Number of requests the accept endpoint receives.
MaxRequests == 2

Requests == 1..MaxRequests

\* Primary keys (uuid4 in the code, unique per row): the row process_text
\* adds for request r, and the row save_to_detox_items adds in its run.
RowIds == 1..(2 * MaxRequests)
AcceptId(r) == r
PipelineId(r) == MaxRequests + r

\* The id Celery gives the n-th job enqueued by the run of request r.
TaskId(r, n) == r + MaxRequests * (n - 1)

----------------------------------------------------------------------------
(* Program constants *)

\* DetoxPipeline.similarity_threshold, 0.8
similarity_threshold == 80

\* DetoxPipeline.max_similar_items
max_similar_items == 3

\* stop_after_attempt(3) on LLMRouter.generate
MaxAttempts == 3

\* DetoxPipeline.entity_types
entity_types == {"PERSON", "ORG", "GPE", "LOC", "PRODUCT", "EVENT", "WORK_OF_ART"}

\* raise ValueError("Input text cannot be empty")
EmptyTextMsg == "Input text cannot be empty"

\* The fallback analysis of analyze_with_llm's except branch.
FallbackAnalysis ==
    [analysis |-> "Unable to generate analysis due to an error.",
     is_sensational |-> FALSE,
     confidence |-> 0,
     key_points |-> <<>>]

----------------------------------------------------------------------------
(* Inputs *)

\* Request texts: empty, whitespace only, and texts with content.
Texts == { <<>>, <<" ">>, <<" ", "J">> }


\* Messages of the exceptions raised by the external collaborators.
EmbedFailMsg == "embedding failed"
SaveCommitFailMsg == "insert failed"
UpdateCommitFailMsg == "update failed"
RefreshFailMsg == "refresh failed"
EnqueueFailMsg == "enqueue failed"
GetFailMsg == "get failed"

\* Points of the similarity index.
Hit1 == [id |-> "1", score |-> 85, headline |-> "Experts warn about AI risks"]
Hit2 == [id |-> "2", score |-> 80, headline |-> ""]

\* What json.loads of the LLM's content may give: a dict with the four keys,
\* or no dict at all (unparseable content, a non-object, a confidence that
\* float() rejects).
LLMContents ==
    { [parse |-> "ok", has_keys |-> TRUE,
       analysis |-> "calm analysis", is_sensational |-> TRUE,
       confidence |-> 90, key_points |-> <<"a", "b">>],
      [parse |-> "ok", has_keys |-> TRUE,
       analysis |-> "calm analysis", is_sensational |-> FALSE,
       confidence |-> 150, key_points |-> <<>>],
      [parse |-> "error", has_keys |-> FALSE,
       analysis |-> "", is_sensational |-> FALSE,
       confidence |-> 0, key_points |-> <<>>] }

----------------------------------------------------------------------------
(* Values *)

NoText == <<"NULL">>
NoId == 0
NoMeme == [task_id |-> NoId, status |-> "null"]
NoAnalysis == [analysis |-> "null", is_sensational |-> FALSE,
               confidence |-> 0, key_points |-> <<>>]

\* A detox_items row. creator and req record which handler wrote the row and
\* for which request; they are not columns.
NoRow ==
    [id |-> NoId, creator |-> "none", req |-> 0, status |-> "null",
     original_text |-> NoText, masked_text |-> NoText,
     analysis |-> "null", is_sensational |-> FALSE, confidence |-> 0,
     entities |-> <<>>, similar_items |-> <<>>,
     meme_task_id |-> NoId, meme_status |-> "null", key_points |-> <<>>,
     error |-> "null", user_id |-> "null"]

NoResponse == [code |-> 0, id |-> NoId, status |-> "null", original_text |-> NoText]

\* No answer of the status endpoint outstanding.
NoStatus == [code |-> 0, id |-> NoId, status |-> "null",
             original_text |-> NoText, meme_task_id |-> NoId,
             error |-> "null"]

EmptySession == [new |-> <<>>, dirty |-> FALSE]

\* No LLMRouter under exercise, no direct call of the meme trigger.
NoRouter == [pc |-> "none"]
NoTrigger == [pc |-> "none"]

\* No VectorService under exercise, no direct call of mask_entities.
NoVector == [pc |-> "none"]
NoMasking == [pc |-> "none"]

----------------------------------------------------------------------------
(* str.strip *)

IsSpace(c) == c = " "

RECURSIVE LStrip(_)
LStrip(t) ==
    IF t = <<>> THEN <<>>
    ELSE IF IsSpace(Head(t)) THEN LStrip(Tail(t)) ELSE t

RECURSIVE RStrip(_)
RStrip(t) ==
    IF t = <<>> THEN <<>>
    ELSE IF IsSpace(t[Len(t)]) THEN RStrip(SubSeq(t, 1, Len(t) - 1)) ELSE t

Strip(t) == RStrip(LStrip(t))

\* A mutant of TextIsEmpty: tests the text, not the stripped text.
TextIsEmptyNoStrip(text) == text = <<>>

\* process: `if not text.strip()`
TextIsEmpty(text) == Strip(text) = <<>>

----------------------------------------------------------------------------
(* mask_entities *)

\* The spans of the maximal runs of non-space characters of the text,
\* [start, end) in characters.
TokenSpans(text) ==
    { sp \in (0..Len(text)) \X (0..Len(text)) :
        /\ sp[1] < sp[2]
        /\ \A i \in (sp[1] + 1)..sp[2] : ~IsSpace(text[i])
        /\ sp[1] = 0 \/ IsSpace(text[sp[1]])
        /\ sp[2] = Len(text) \/ IsSpace(text[sp[2] + 1]) }

\* nlp(text).ents: the recogniser is a fixed function of the text. Here a
\* token that begins with "J" is a PERSON and one that begins with "9" is a
\* DATE (a label outside entity_types).
Nlp(text) ==
    { [start |-> sp[1], end |-> sp[2],
       label |-> IF text[sp[1] + 1] = "J" THEN "PERSON" ELSE "DATE"] :
        sp \in { t \in TokenSpans(text) : text[t[1] + 1] \in {"J", "9"} } }

\* A mutant of SortByStartDesc: ascending order.
RECURSIVE SortByStartAsc(_)
SortByStartAsc(ents) ==
    IF ents = {} THEN <<>>
    ELSE LET e == CHOOSE x \in ents : \A y \in ents : x.start <= y.start
         IN  <<e>> \o SortByStartAsc(ents \ {e})

\* sorted(doc.ents, key=lambda e: e.start_char, reverse=True)
RECURSIVE SortByStartDesc(_)
SortByStartDesc(ents) ==
    IF ents = {} THEN <<>>
    ELSE LET e == CHOOSE x \in ents : \A y \in ents : y.start <= x.start
         IN  <<e>> \o SortByStartDesc(ents \ {e})

LabelChars(label) ==
    CASE label = "PERSON" -> <<"P", "E", "R", "S", "O", "N">>
      [] label = "DATE" -> <<"D", "A", "T", "E">>
      [] label = "ORG" -> <<"O", "R", "G">>
      [] OTHER -> <<"X">>

DigitChar(d) == <<"0", "1", "2", "3", "4", "5", "6", "7", "8", "9">>[d + 1]

RECURSIVE Digits(_)
Digits(n) ==
    IF n < 10 THEN <<DigitChar(n)>>
    ELSE Digits(n \div 10) \o <<DigitChar(n % 10)>>

\* f"[{ent.label_}_{len(entities) + 1}]"
MaskChars(label, n) == <<"[">> \o LabelChars(label) \o <<"_">> \o Digits(n) \o <<"]">>

\* masked_text[:start] + mask + masked_text[end:]
Splice(t, start, end, mask) ==
    SubSeq(t, 1, start) \o mask \o SubSeq(t, end + 1, Len(t))

\* The loop of mask_entities over the sorted entities; acc is
\* [masked_text, entities].
RECURSIVE MaskLoop(_, _, _)
MaskLoop(text, sorted, acc) ==
    IF sorted = <<>> THEN acc
    ELSE LET ent == Head(sorted)
             mask == MaskChars(ent.label, Len(acc.entities) + 1)
         IN  IF ent.label \in entity_types
             THEN MaskLoop(text, Tail(sorted),
                    [masked_text |-> Splice(acc.masked_text, ent.start, ent.end, mask),
                     entities |-> Append(acc.entities,
                        [text |-> SubSeq(text, ent.start + 1, ent.end),
                         label |-> ent.label,
                         mask |-> mask,
                         start |-> ent.start,
                         end |-> ent.end])])
             ELSE MaskLoop(text, Tail(sorted), acc)

mask_entities(text, ents) ==
    MaskLoop(text, SortByStartDesc(ents), [masked_text |-> text, entities |-> <<>>])

----------------------------------------------------------------------------
(* embed_text *)

\* `if len(text) > 512: text = text[:512]`
MaxEmbedChars == 512

\* The encoder is a fixed function of the text it is given; the vector is
\* represented by that text.
embed_text(text) ==
    IF Len(text) > MaxEmbedChars THEN SubSeq(text, 1, MaxEmbedChars) ELSE text

----------------------------------------------------------------------------
(* find_similar_items *)

\* The points of the index nearest to a query, by descending score.
IndexContents ==
    { <<[id |-> "7", score |-> 95, headline |-> "h7"], Hit1,
        [id |-> "8", score |-> 82, headline |-> "h8"], Hit2,
        [id |-> "9", score |-> 70, headline |-> "h9"]>> }

RECURSIVE TakeWhileScore(_, _, _)
TakeWhileScore(points, limit, min_score) ==
    IF points = <<>> \/ limit = 0 THEN <<>>
    ELSE IF Head(points).score >= min_score
         THEN <<Head(points)>> \o TakeWhileScore(Tail(points), limit - 1, min_score)
         ELSE TakeWhileScore(Tail(points), limit, min_score)

\* qdrant_client.search(query_vector, limit=limit, score_threshold=min_score)
QdrantSearch(points, limit, min_score) == TakeWhileScore(points, limit, min_score)

\* A mutant of find_similar_items: the failure of the search call escapes.
find_similar_items_raises(outcome, points, min_score, limit) ==
    IF outcome = "ok"
    THEN [raised |-> FALSE, items |-> QdrantSearch(points, limit, min_score)]
    ELSE [raised |-> TRUE, items |-> <<>>]

\* find_similar_items: the hits as {id, score, payload}; [] when the search
\* call raises.
find_similar_items(outcome, points, min_score, limit) ==
    IF outcome = "ok"
    THEN [raised |-> FALSE, items |-> QdrantSearch(points, limit, min_score)]
    ELSE [raised |-> FALSE, items |-> <<>>]

----------------------------------------------------------------------------
(* analyze_with_llm *)

\* result.get(key, default) over the parsed content
ParsedAnalysis(content) ==
    IF content.has_keys
    THEN [analysis |-> content.analysis,
          is_sensational |-> content.is_sensational,
          confidence |-> content.confidence,
          key_points |-> content.key_points]
    ELSE [analysis |-> "", is_sensational |-> FALSE,
          confidence |-> 50, key_points |-> <<>>]

\* A mutant of analyze_with_llm: a failure yields the defaults of the parse
\* branch instead of the fallback.
analyze_with_llm_defaults(llm_ok, content) ==
    IF llm_ok /\ content.parse = "ok"
    THEN ParsedAnalysis(content)
    ELSE [analysis |-> "", is_sensational |-> FALSE,
          confidence |-> 50, key_points |-> <<>>]

\* analyze_with_llm once llm_generate has returned (llm_ok) or raised after
\* its retries: the parsed fields, or the fallback on any exception.
analyze_with_llm(llm_ok, content) ==
    IF llm_ok /\ content.parse = "ok"
    THEN ParsedAnalysis(content)
    ELSE FallbackAnalysis

----------------------------------------------------------------------------
(* State *)

\* The users who submit requests.
Users == {"alice"}

\* The state of one request: the accept handler's inputs, then the locals of
\* its background run and of the process() call inside it.
\*   stages      the stages of process() begun so far, in order
\*   result      "none", or the status of process_detox_pipeline's result
\*   err         the message of the exception caught last
\*   item        the loaded detox_item object (bound once db.get returned)
\*   delays      the calls of generate_meme.delay made by the run
\*   enqueues    those of them that enqueued a job
\*   adds, commits, refreshes, rollbacks
\*               the session calls made by save_to_detox_items
\*   saved       how save_to_detox_items ended
\*   updated     how the commit of the background run's update ended
InitRun ==
    [pc |-> "new", text |-> NoText, generate_meme |-> FALSE, user |-> "null",
     detox_id |-> NoId, bound |-> FALSE, item |-> NoRow,
     stages |-> <<>>, masked_text |-> NoText, entities |-> <<>>,
     embedding |-> NoText, searched |-> "none", similar_items |-> <<>>,
     attempts |-> 0, llm |-> "none", analysis |-> NoAnalysis,
     delays |-> 0, enqueues |-> 0, meme_data |-> NoMeme,
     adds |-> 0, commits |-> 0, refreshes |-> 0, rollbacks |-> 0,
     saved |-> "none", new_id |-> NoId, updated |-> "none",
     result |-> "none", err |-> "null", returned |-> FALSE]

Init ==
    /\ store = [id \in RowIds |-> NoRow]
    /\ run = [r \in Requests |-> InitRun]
    /\ session = [r \in Requests |-> EmptySession]
    /\ response = [r \in Requests |-> NoResponse]
    /\ memeQueue = {}
    /\ statusResp = NoStatus
    /\ router = NoRouter
    /\ trigger = NoTrigger
    /\ vector = NoVector
    /\ masking = NoMasking

----------------------------------------------------------------------------
(* The session: add, commit, rollback *)

\* What a successful commit of request r's session leaves in the table: the
\* loaded item written back when it is dirty, the added rows inserted.
RECURSIVE InsertAll(_, _)
InsertAll(table, rows) ==
    IF rows = <<>> THEN table
    ELSE InsertAll([table EXCEPT ![Head(rows).id] = Head(rows)], Tail(rows))

Committed(r, item, sess) ==
    InsertAll(IF sess.dirty THEN [store EXCEPT ![item.id] = item] ELSE store,
              sess.new)

----------------------------------------------------------------------------
(* process_text: the accept endpoint *)

PendingRow(r, text, user) ==
    [NoRow EXCEPT !.id = AcceptId(r),
                  !.creator = "accept", !.req = r, !.status = "pending",
                  !.original_text = text, !.user_id = user]

\* A mutant of process_text: the background run is scheduled and the answer
\* given whether or not the commit went through.
process_text_no_commit(r) ==
    /\ run[r].pc = "new"
    /\ \E text \in Texts, gm \in BOOLEAN, user \in Users,
          outcome \in {"ok", "commit_failed", "refresh_failed"} :
        LET id == AcceptId(r) IN
        /\ store' = IF outcome = "commit_failed" THEN store
                    ELSE [store EXCEPT ![id] = PendingRow(r, text, user)]
        /\ run' = [run EXCEPT ![r].pc = "scheduled", ![r].text = text,
                              ![r].generate_meme = gm, ![r].user = user,
                              ![r].detox_id = id]
        /\ response' = [response EXCEPT ![r] =
                [code |-> 202, id |-> id, status |-> "pending",
                 original_text |-> text]]
    /\ UNCHANGED <<session, memeQueue, statusResp, router, trigger, vector, masking>>

\* process_text: add the pending row, commit, refresh, schedule
\* process_detox_background, answer 202; any exception answers 500 (the
\* session dependency then rolls back what was not committed).
process_text(r) ==
    /\ run[r].pc = "new"
    /\ \E text \in Texts, gm \in BOOLEAN, user \in Users,
          outcome \in {"ok", "commit_failed", "refresh_failed"} :
        LET id == AcceptId(r) IN
        /\ store' = IF outcome = "commit_failed" THEN store
                    ELSE [store EXCEPT ![id] = PendingRow(r, text, user)]
        /\ IF outcome = "ok"
           THEN /\ run' = [run EXCEPT ![r].pc = "scheduled", ![r].text = text,
                                 ![r].generate_meme = gm, ![r].user = user,
                                 ![r].detox_id = id]
                /\ response' = [response EXCEPT ![r] =
                        [code |-> 202, id |-> id, status |-> "pending",
                         original_text |-> text]]
           ELSE /\ run' = [run EXCEPT ![r].pc = "rejected", ![r].text = text,
                                 ![r].generate_meme = gm, ![r].user = user]
                /\ response' = [response EXCEPT ![r] =
                        [code |-> 500, id |-> NoId, status |-> "null",
                         original_text |-> NoText]]
    /\ UNCHANGED <<session, memeQueue, statusResp, router, trigger, vector, masking>>

----------------------------------------------------------------------------
(* process_detox_background: entering the session, loading the item *)

\* `async with get_db_session() as db`, `detox_item = await db.get(...)`,
\* `if not detox_item: return`. An exception of db.get goes to the handler's
\* except branch with detox_item unbound.
BgGet(r) ==
    /\ run[r].pc = "scheduled"
    /\ \E ok \in BOOLEAN :
        IF ok
        THEN IF store[run[r].detox_id] # NoRow
             THEN run' = [run EXCEPT ![r].pc = "process", ![r].bound = TRUE,
                                     ![r].item = store[run[r].detox_id]]
             ELSE run' = [run EXCEPT ![r].pc = "exit"]
        ELSE run' = [run EXCEPT ![r].pc = "bg_except", ![r].err = GetFailMsg]
    /\ UNCHANGED <<store, session, response, memeQueue, statusResp, router, trigger, vector, masking>>

----------------------------------------------------------------------------
(* DetoxPipeline.process, called by process_detox_pipeline *)

\* A mutant of Raised: the exception is recorded and the stage is entered
\* again.
RaisedStays(rec, msg) == [rec EXCEPT !.result = "error", !.err = msg]

\* process raises: process_detox_pipeline's except branch turns the
\* exception into the result {"status": "error", "error": str(e)}.
Raised(rec, msg) == [rec EXCEPT !.pc = "bg_update", !.result = "error", !.err = msg]

\* A mutant of NextStage: the meme trigger runs before the analysis.
NextStageMemeFirst(stage) ==
    CASE stage = "check" -> "mask"
      [] stage = "mask" -> "embed"
      [] stage = "embed" -> "search"
      [] stage = "search" -> "meme"
      [] stage = "meme" -> "llm"
      [] stage = "llm" -> "save"
      [] stage = "save" -> "return"
      [] OTHER -> "bg_update"

\* The statement order of process: the stage begun when `stage` has finished.
NextStage(stage) ==
    CASE stage = "check" -> "mask"
      [] stage = "mask" -> "embed"
      [] stage = "embed" -> "search"
      [] stage = "search" -> "llm"
      [] stage = "llm" -> "meme"
      [] stage = "meme" -> "save"
      [] stage = "save" -> "return"
      [] OTHER -> "bg_update"

\* `if not text.strip(): raise ValueError(...)`
ProcessCheck(r) ==
    /\ run[r].pc = "process"
    /\ run' = [run EXCEPT ![r] =
                 IF TextIsEmpty(@.text) THEN Raised(@, EmptyTextMsg)
                 ELSE [@ EXCEPT !.pc = NextStage("check")]]
    /\ UNCHANGED <<store, session, response, memeQueue, statusResp, router, trigger, vector, masking>>

\* 1. masked_text, entities = self.mask_entities(text)
MaskStage(r) ==
    /\ run[r].pc = "mask"
    /\ LET m == mask_entities(run[r].text, Nlp(run[r].text)) IN
        run' = [run EXCEPT ![r].pc = NextStage("mask"),
                           ![r].stages = Append(@, "mask"),
                           ![r].masked_text = m.masked_text,
                           ![r].entities = m.entities]
    /\ UNCHANGED <<store, session, response, memeQueue, statusResp, router, trigger, vector, masking>>

\* 2. embedding = self.embed_text(masked_text); the encoder's exception is
\* not caught by embed_text nor by process.
EmbedStage(r) ==
    /\ run[r].pc = "embed"
    /\ \E ok \in BOOLEAN :
        run' = [run EXCEPT ![r] =
                  IF ok
                  THEN [@ EXCEPT !.pc = NextStage("embed"),
                                 !.stages = Append(@, "embed"),
                                 !.embedding = embed_text(run[r].masked_text)]
                  ELSE Raised([@ EXCEPT !.stages = Append(@, "embed")], EmbedFailMsg)]
    /\ UNCHANGED <<store, session, response, memeQueue, statusResp, router, trigger, vector, masking>>

\* similar_items = await self.find_similar_items(embedding,
\*     min_score=self.similarity_threshold, limit=self.max_similar_items)
SearchStage(r) ==
    /\ run[r].pc = "search"
    /\ \E outcome \in {"ok", "failed"}, points \in IndexContents :
        LET res == find_similar_items(outcome, points, similarity_threshold,
                                      max_similar_items)
            rec == [run[r] EXCEPT !.stages = Append(@, "search"),
                                  !.searched = outcome]
        IN  run' = [run EXCEPT ![r] =
                      IF res.raised THEN Raised(rec, "search failed")
                      ELSE [rec EXCEPT !.pc = NextStage("search"), !.similar_items = res.items]]
    /\ UNCHANGED <<store, session, response, memeQueue, statusResp, router, trigger, vector, masking>>

\* 3. analysis = await self.analyze_with_llm(...): one attempt of
\* llm_generate under its retry policy. A failed attempt is retried until
\* MaxAttempts attempts were made; then the exception reaches
\* analyze_with_llm's except branch.
LLMStage(r) ==
    /\ run[r].pc = "llm"
    /\ run[r].attempts < MaxAttempts
    /\ \E ok \in BOOLEAN, content \in LLMContents :
        LET rec == [run[r] EXCEPT
                      !.attempts = @ + 1,
                      !.stages = IF run[r].attempts = 0 THEN Append(@, "llm") ELSE @]
        IN  run' = [run EXCEPT ![r] =
                      IF ok
                      THEN [rec EXCEPT
                              !.pc = NextStage("llm"),
                              !.attempts = 0,
                              !.llm = IF content.parse = "ok" THEN "ok" ELSE "unparseable",
                              !.analysis = analyze_with_llm(TRUE, content)]
                      ELSE IF rec.attempts < MaxAttempts
                           THEN rec
                           ELSE [rec EXCEPT
                                   !.pc = NextStage("llm"),
                                   !.attempts = 0,
                                   !.llm = "failed",
                                   !.analysis = analyze_with_llm(FALSE, content)]]
    /\ UNCHANGED <<store, session, response, memeQueue, statusResp, router, trigger, vector, masking>>

\* generate_meme.delay(headline=..., analysis=..., style="funny, satirical")
MemeJob(r, rec) ==
    [task_id |-> TaskId(r, rec.delays + 1),
     headline |-> rec.text, analysis |-> rec.analysis.analysis,
     style |-> "funny, satirical"]

\* A mutant of generate_meme_if_needed: the analysis is not looked at.
generate_meme_if_needed_ungated(analysis, delay_ok, task_id) ==
    IF delay_ok
    THEN [raised |-> FALSE, delayed |-> TRUE, enqueued |-> TRUE,
          meme_data |-> [task_id |-> task_id, status |-> "pending"]]
    ELSE [raised |-> FALSE, delayed |-> TRUE, enqueued |-> FALSE,
          meme_data |-> NoMeme]

\* A mutant of generate_meme_if_needed: the exception of delay() is let
\* through.
generate_meme_if_needed_raises(analysis, delay_ok, task_id) ==
    IF ~analysis.is_sensational
    THEN [raised |-> FALSE, delayed |-> FALSE, enqueued |-> FALSE,
          meme_data |-> NoMeme]
    ELSE IF delay_ok
    THEN [raised |-> FALSE, delayed |-> TRUE, enqueued |-> TRUE,
          meme_data |-> [task_id |-> task_id, status |-> "pending"]]
    ELSE [raised |-> TRUE, delayed |-> TRUE, enqueued |-> FALSE,
          meme_data |-> NoMeme]

\* generate_meme_if_needed: None for an analysis that is not sensational;
\* else generate_meme.delay(...) and {"task_id": task.id, "status":
\* "pending"}, or None when delay() raises. delay_ok is whether the call of
\* delay() enqueues, task_id the id Celery gives the job.
\*   raised    an exception leaves the function
\*   delayed   delay() was called
\*   enqueued  delay() put a job on the queue
generate_meme_if_needed(analysis, delay_ok, task_id) ==
    IF ~analysis.is_sensational
    THEN [raised |-> FALSE, delayed |-> FALSE, enqueued |-> FALSE,
          meme_data |-> NoMeme]
    ELSE IF delay_ok
    THEN [raised |-> FALSE, delayed |-> TRUE, enqueued |-> TRUE,
          meme_data |-> [task_id |-> task_id, status |-> "pending"]]
    ELSE [raised |-> FALSE, delayed |-> TRUE, enqueued |-> FALSE,
          meme_data |-> NoMeme]

\* A mutant of MemeWanted: the trigger is called for every request.
MemeWantedAlways(generate_meme, analysis) == TRUE

\* `if generate_meme and analysis.get("is_sensational", False):`
MemeWanted(generate_meme, analysis) == generate_meme /\ analysis.is_sensational

\* 4. `meme_data = None; if ...: meme_data = await
\* self.generate_meme_if_needed(...)`. process has no try around the call.
MemeStage(r) ==
    /\ run[r].pc = "meme"
    /\ IF MemeWanted(run[r].generate_meme, run[r].analysis)
       THEN \E delay_ok \in BOOLEAN :
              LET out == generate_meme_if_needed(run[r].analysis, delay_ok,
                                                 TaskId(r, run[r].delays + 1))
                  rec == [run[r] EXCEPT
                            !.stages = Append(@, "meme"),
                            !.delays = IF out.delayed THEN @ + 1 ELSE @,
                            !.enqueues = IF out.enqueued THEN @ + 1 ELSE @]
              IN  /\ memeQueue' = IF out.enqueued
                                  THEN memeQueue \cup {MemeJob(r, run[r])}
                                  ELSE memeQueue
                  /\ run' = [run EXCEPT ![r] =
                               IF out.raised
                               THEN Raised(rec, EnqueueFailMsg)
                               ELSE [rec EXCEPT !.pc = NextStage("meme"),
                                                !.meme_data = out.meme_data]]
       ELSE /\ memeQueue' = memeQueue
            /\ run' = [run EXCEPT ![r].pc = NextStage("meme"),
                                  ![r].stages = Append(@, "skip")]
    /\ UNCHANGED <<store, session, response, statusResp, router, trigger, vector, masking>>

----------------------------------------------------------------------------
(* save_to_detox_items *)

\* A mutant of PipelineRow: the row names a meme task whether or not one
\* was enqueued.
PipelineRowAlwaysTask(r, rec) ==
    [NoRow EXCEPT
       !.id = PipelineId(r), !.creator = "pipeline", !.req = r,
       !.original_text = rec.text,
       !.analysis = rec.analysis.analysis,
       !.is_sensational = rec.analysis.is_sensational,
       !.confidence = rec.analysis.confidence,
       !.entities = rec.entities,
       !.similar_items = rec.similar_items,
       !.meme_task_id = TaskId(r, 1),
       !.key_points = rec.analysis.key_points,
       !.meme_status = "pending"]

\* DetoxItem(original_text=..., analysis=..., ..., metadata={...}); an empty
\* meme_data gives meme_task_id and meme_status None.
PipelineRow(r, rec) ==
    [NoRow EXCEPT
       !.id = PipelineId(r), !.creator = "pipeline", !.req = r,
       !.original_text = rec.text,
       !.analysis = rec.analysis.analysis,
       !.is_sensational = rec.analysis.is_sensational,
       !.confidence = rec.analysis.confidence,
       !.entities = rec.entities,
       !.similar_items = rec.similar_items,
       !.meme_task_id = rec.meme_data.task_id,
       !.key_points = rec.analysis.key_points,
       !.meme_status = rec.meme_data.status]

\* A mutant of save_to_detox_items: the except branch re-raises without
\* db.rollback(), so the added row stays pending in the session.
save_to_detox_items_no_rollback(r) ==
    \E outcome \in {"ok", "commit_failed", "refresh_failed"} :
      LET added == [session[r] EXCEPT !.new = Append(@, PipelineRow(r, run[r]))]
          rec == [run[r] EXCEPT !.stages = Append(@, "persist"),
                                !.adds = @ + 1, !.commits = @ + 1,
                                !.saved = outcome]
      IN  IF outcome = "commit_failed"
          THEN /\ store' = store
               /\ session' = [session EXCEPT ![r] = added]
               /\ run' = [run EXCEPT ![r] = Raised(rec, SaveCommitFailMsg)]
          ELSE /\ store' = Committed(r, run[r].item, added)
               /\ session' = [session EXCEPT ![r] = EmptySession]
               /\ run' = [run EXCEPT ![r] =
                    IF outcome = "refresh_failed"
                    THEN Raised([rec EXCEPT !.refreshes = @ + 1], RefreshFailMsg)
                    ELSE [rec EXCEPT !.pc = NextStage("save"),
                                     !.refreshes = @ + 1,
                                     !.new_id = PipelineId(r)]]

\* save_to_detox_items: db.add(detox_item); await db.commit();
\* await db.refresh(detox_item); on any exception await db.rollback() and
\* re-raise.
save_to_detox_items(r) ==
    \E outcome \in {"ok", "commit_failed", "refresh_failed"} :
      LET added == [session[r] EXCEPT !.new = Append(@, PipelineRow(r, run[r]))]
          rec == [run[r] EXCEPT !.stages = Append(@, "persist"),
                                !.adds = @ + 1, !.commits = @ + 1,
                                !.saved = outcome]
      IN  IF outcome = "commit_failed"
          THEN /\ store' = store
               /\ session' = [session EXCEPT ![r] = EmptySession]
               /\ run' = [run EXCEPT ![r] =
                    Raised([rec EXCEPT !.rollbacks = @ + 1], SaveCommitFailMsg)]
          ELSE /\ store' = Committed(r, run[r].item, added)
               /\ session' = [session EXCEPT ![r] = EmptySession]
               /\ run' = [run EXCEPT ![r] =
                    IF outcome = "refresh_failed"
                    THEN Raised([rec EXCEPT !.refreshes = @ + 1,
                                            !.rollbacks = @ + 1], RefreshFailMsg)
                    ELSE [rec EXCEPT !.pc = NextStage("save"),
                                     !.refreshes = @ + 1,
                                     !.new_id = PipelineId(r)]]

\* 5. `if db: detox_item = await self.save_to_detox_items(...)`; the
\* background run always passes its session.
SaveStage(r) ==
    /\ run[r].pc = "save"
    /\ save_to_detox_items(r)
    /\ UNCHANGED <<response, memeQueue, statusResp, router, trigger, vector, masking>>

\* `return {...}` of process, and process_detox_pipeline's
\* {"status": "completed", **result}.
ReturnStage(r) ==
    /\ run[r].pc = "return"
    /\ run' = [run EXCEPT ![r].pc = NextStage("return"),
                          ![r].stages = Append(@, "return"),
                          ![r].returned = TRUE,
                          ![r].result = "completed"]
    /\ UNCHANGED <<store, session, response, memeQueue, statusResp, router, trigger, vector, masking>>

----------------------------------------------------------------------------
(* process_detox_background: writing the outcome back *)

\* `if result["status"] == "completed": detox_item.status = "completed" ...`
CompletedItem(rec) ==
    [rec.item EXCEPT
       !.status = "completed",
       !.masked_text = rec.masked_text,
       !.analysis = rec.analysis.analysis,
       !.is_sensational = rec.analysis.is_sensational,
       !.confidence = rec.analysis.confidence,
       !.entities = rec.entities,
       !.similar_items = rec.similar_items,
       !.meme_task_id = rec.meme_data.task_id,
       !.key_points = rec.analysis.key_points,
       !.meme_status = IF rec.meme_data = NoMeme THEN "null" ELSE "pending",
       !.error = "null"]

\* A mutant of ErrorItem: the message is recorded, the status is left alone.
ErrorItemKeepsStatus(item, msg) ==
    [item EXCEPT !.key_points = <<>>, !.meme_status = "null", !.error = msg]

\* `detox_item.status = "error"; detox_item.metadata = {"error": ...}`
ErrorItem(item, msg) ==
    [item EXCEPT !.status = "error", !.key_points = <<>>,
                 !.meme_status = "null", !.error = msg]

\* A mutant of AfterUpdateCommit: the except branch is entered after a
\* successful commit as well.
AfterUpdateCommitAlwaysExcept(ok) == "bg_except"

\* Where process_detox_background goes after `await db.commit()` of the
\* update: out of the try block, or into its except branch.
AfterUpdateCommit(ok) == IF ok THEN "exit" ELSE "bg_except"

\* Lines 181-201: the result is written onto the loaded item and committed.
BgUpdate(r) ==
    /\ run[r].pc = "bg_update"
    /\ \E ok \in BOOLEAN :
        LET item == IF run[r].result = "completed"
                    THEN CompletedItem(run[r])
                    ELSE ErrorItem(run[r].item, run[r].err)
            sess == [session[r] EXCEPT !.dirty = TRUE]
        IN  /\ store' = IF ok THEN Committed(r, item, sess) ELSE store
            /\ session' = [session EXCEPT ![r] = IF ok THEN EmptySession ELSE sess]
            /\ run' = [run EXCEPT ![r].pc = AfterUpdateCommit(ok),
                                  ![r].item = item,
                                  ![r].updated = IF ok THEN "ok" ELSE "failed",
                                  ![r].err = IF ok THEN @ ELSE UpdateCommitFailMsg]
    /\ UNCHANGED <<response, memeQueue, statusResp, router, trigger, vector, masking>>

\* Lines 203-213: the except branch writes status "error" with str(e) and
\* commits once more; whatever that raises (the commit, or detox_item being
\* unbound) is logged and dropped.
BgExcept(r) ==
    /\ run[r].pc = "bg_except"
    /\ IF ~run[r].bound
       THEN /\ run' = [run EXCEPT ![r].pc = "exit"]
            /\ UNCHANGED <<store, session>>
       ELSE \E ok \in BOOLEAN :
              LET item == ErrorItem(run[r].item, run[r].err)
                  sess == [session[r] EXCEPT !.dirty = TRUE]
              IN  /\ store' = IF ok THEN Committed(r, item, sess) ELSE store
                  /\ session' = [session EXCEPT ![r] =
                                   IF ok THEN EmptySession ELSE sess]
                  /\ run' = [run EXCEPT ![r].pc = "exit", ![r].item = item]
    /\ UNCHANGED <<response, memeQueue, statusResp, router, trigger, vector, masking>>

\* Leaving `async with get_db_session() as db` (get_db): the session commits
\* what is still pending; when that commit raises it rolls back and the
\* exception leaves process_detox_background.
SessionExit(r) ==
    /\ run[r].pc = "exit"
    /\ IF session[r] = EmptySession
       THEN /\ run' = [run EXCEPT ![r].pc = "done"]
            /\ UNCHANGED <<store, session>>
       ELSE \E ok \in BOOLEAN :
              /\ store' = IF ok THEN Committed(r, run[r].item, session[r]) ELSE store
              /\ session' = [session EXCEPT ![r] = EmptySession]
              /\ run' = [run EXCEPT ![r].pc = IF ok THEN "done" ELSE "raised"]
    /\ UNCHANGED <<response, memeQueue, statusResp, router, trigger, vector, masking>>

----------------------------------------------------------------------------
(* get_detox_status *)

Superusers == {"root"}

\* The authenticated users who read statuses: a submitter, a user who
\* submits nothing, a superuser. (get_current_user answers 401 itself when
\* there is no authenticated user, so current_user is never None here.)
Callers == Users \cup {"bob"} \cup Superusers

\* An HTTPException answer: no field of any record in it.
HttpError(code) == [NoStatus EXCEPT !.code = code]

\* A mutant of get_detox_status: the permission check is left out.
get_detox_status_no_owner_check(id, caller, get_ok) ==
    IF ~get_ok THEN HttpError(500)
    ELSE IF store[id] = NoRow THEN HttpError(404)
    ELSE IF store[id].status = "null" THEN HttpError(500)
    ELSE [code |-> 200, id |-> id, status |-> store[id].status,
          original_text |-> store[id].original_text,
          meme_task_id |-> store[id].meme_task_id,
          error |-> IF store[id].status = "error" THEN store[id].error ELSE "null"]

\* A mutant of get_detox_status: a record that is still pending is answered
\* as if it were not there.
get_detox_status_terminal_only(id, caller, get_ok) ==
    IF ~get_ok THEN HttpError(500)
    ELSE IF store[id] = NoRow \/ store[id].status = "pending" THEN HttpError(404)
    ELSE IF caller # store[id].user_id /\ caller \notin Superusers
    THEN HttpError(403)
    ELSE IF store[id].status = "null" THEN HttpError(500)
    ELSE [code |-> 200, id |-> id, status |-> store[id].status,
          original_text |-> store[id].original_text,
          meme_task_id |-> store[id].meme_task_id,
          error |-> IF store[id].status = "error" THEN store[id].error ELSE "null"]

\* get_detox_status: db.get, 404 when there is no row, 403 when the caller
\* is neither the row's user nor a superuser, else the DetoxResponse built
\* from the row. An exception of db.get or of building the response (its
\* status field is a required str, and a row written by save_to_detox_items
\* has none) is answered 500.
get_detox_status(id, caller, get_ok) ==
    IF ~get_ok THEN HttpError(500)
    ELSE IF store[id] = NoRow THEN HttpError(404)
    ELSE IF caller # store[id].user_id /\ caller \notin Superusers
    THEN HttpError(403)
    ELSE IF store[id].status = "null" THEN HttpError(500)
    ELSE [code |-> 200, id |-> id, status |-> store[id].status,
          original_text |-> store[id].original_text,
          meme_task_id |-> store[id].meme_task_id,
          error |-> IF store[id].status = "error" THEN store[id].error ELSE "null"]

\* The answers a read can get in the current state, over the ids and callers
\* it may come with and over whether db.get answers.
StatusAnswers ==
    { get_detox_status(id, caller, get_ok) :
        id \in RowIds, caller \in Callers, get_ok \in BOOLEAN }

GetStatus ==
    /\ \E answer \in StatusAnswers : statusResp' = answer
    /\ UNCHANGED <<store, run, session, response, memeQueue, router, trigger, vector, masking>>

----------------------------------------------------------------------------

Next ==
    \/ \E r \in Requests : process_text(r)
    \/ \E r \in Requests : BgGet(r)
    \/ \E r \in Requests : ProcessCheck(r)
    \/ \E r \in Requests : MaskStage(r)
    \/ \E r \in Requests : EmbedStage(r)
    \/ \E r \in Requests : SearchStage(r)
    \/ \E r \in Requests : LLMStage(r)
    \/ \E r \in Requests : MemeStage(r)
    \/ \E r \in Requests : SaveStage(r)
    \/ \E r \in Requests : ReturnStage(r)
    \/ \E r \in Requests : BgUpdate(r)
    \/ \E r \in Requests : BgExcept(r)
    \/ \E r \in Requests : SessionExit(r)

Spec == Init /\ [][Next]_vars

\* One step of the background run of request r.
BgStep(r) ==
    \/ BgGet(r)
    \/ ProcessCheck(r)
    \/ MaskStage(r)
    \/ EmbedStage(r)
    \/ SearchStage(r)
    \/ LLMStage(r)
    \/ MemeStage(r)
    \/ SaveStage(r)
    \/ ReturnStage(r)
    \/ BgUpdate(r)
    \/ BgExcept(r)
    \/ SessionExit(r)

\* The request whose background run is followed to its end.
FirstRequest == CHOOSE r \in Requests : \A q \in Requests : r <= q

\* One request and its background run, scheduled by the event loop, every
\* call it awaits returning or failing: the run's next step is taken. (The
\* runs of different requests share no row and no session.)
NextRun == process_text(FirstRequest) \/ BgStep(FirstRequest)

SpecFair == Init /\ [][NextRun]_vars /\ WF_vars(BgStep(FirstRequest))

\* The handlers together with status reads. A read's answer is held in
\* statusResp until it is delivered; the handlers' steps and further reads
\* come after the delivery.
Deliver ==
    /\ statusResp # NoStatus
    /\ statusResp' = NoStatus
    /\ UNCHANGED <<store, run, session, response, memeQueue, router, trigger, vector, masking>>

NextStatus ==
    \/ statusResp = NoStatus /\ Next
    \/ statusResp = NoStatus /\ GetStatus
    \/ Deliver

SpecStatus == Init /\ [][NextStatus]_vars

----------------------------------------------------------------------------
(* LLMRouter: calculate_profanity_score, select_provider, generate *)

\* LLMRouter.default_provider
default_provider == "openai"

\* LLMRouter.profanity_threshold, 0.75
profanity_threshold == 75

\* wait_exponential(multiplier=1, min=4, max=10), in seconds
wait_multiplier == 1
wait_min == 4
wait_max == 10

\* Number of calls of generate made on one router.
MaxGenerateCalls == 2

\* The providers _initialize_providers knows; one is configured when its API
\* key is set.
KnownProviders == {"openai", "xai"}

NoProvidersMsg == "No LLM providers configured"
UnknownProviderMsg == "Unknown provider"

\* How a request to a provider's backend may end.
BackendOutcomes == {"ok", "timeout", "rate limited"}

\* Prompts: empty, blank, clean, profane.
Prompts ==
    { <<>>, <<" ">>, <<"h", "i">>, <<"h", "i", " ", "d", "a", "m", "n">> }

\* The generation parameters a ProviderConfig holds and a call may override.
GenParams ==
    {"temperature", "max_tokens", "top_p", "frequency_penalty", "presence_penalty"}

\* The ProviderConfig _initialize_providers builds for a provider (floats in
\* hundredths).
ProviderDefaults(p) ==
    [name |-> p,
     model |-> IF p = "openai" THEN "gpt-4-turbo-preview" ELSE "grok-1",
     temperature |-> IF p = "openai" THEN 70 ELSE 90,
     max_tokens |-> 2048,
     top_p |-> 100,
     frequency_penalty |-> 0,
     presence_penalty |-> 0]

\* **generation_kwargs of a call: none; those analyze_with_llm passes; all
\* five parameters.
NoOverrides == [k \in {} |-> 0]

OverrideSets ==
    { NoOverrides,
      [k \in {"temperature", "max_tokens", "response_format"} |->
          CASE k = "temperature" -> 30
            [] k = "max_tokens" -> 500
            [] OTHER -> "json_object"],
      [k \in GenParams |->
          CASE k = "temperature" -> 90
            [] k = "max_tokens" -> 100
            [] k = "top_p" -> 95
            [] OTHER -> 50] }

\* A mutant of request_params: a default is kept where the call overrides
\* it.
request_params_defaults_win(config, prompt, overrides) ==
    LET base == [k \in {"model", "messages"} \cup GenParams |->
                    CASE k = "model" -> config.model
                      [] k = "messages" -> prompt
                      [] OTHER -> config[k]]
    IN  [k \in DOMAIN base \cup DOMAIN overrides |->
            IF k \in DOMAIN base THEN base[k] ELSE overrides[k]]

\* `params = {"model": config.model, "messages": [...], "temperature":
\* config.temperature, ...}; params.update(generation_kwargs)`
request_params(config, prompt, overrides) ==
    LET base == [k \in {"model", "messages"} \cup GenParams |->
                    CASE k = "model" -> config.model
                      [] k = "messages" -> prompt
                      [] OTHER -> config[k]]
    IN  [k \in DOMAIN base \cup DOMAIN overrides |->
            IF k \in DOMAIN overrides THEN overrides[k] ELSE base[k]]

\* A mutant of config_after_request: the overrides of the call are written
\* into the provider's config.
config_after_request_aliased(configs, provider, overrides) ==
    [p \in DOMAIN configs |->
        IF p = provider
        THEN [k \in DOMAIN configs[p] |->
                IF k \in DOMAIN overrides THEN overrides[k] ELSE configs[p][k]]
        ELSE configs[p]]

\* The providers mapping once an attempt has built and sent its request:
\* params is a dict of its own, and nothing is assigned to config or to
\* self.providers.
config_after_request(configs, provider, overrides) == configs

\* The explicit provider argument of generate: None, or a name.
ProviderArgs == {"none", "openai", "xai", "unknown"}

\* profanity.contains_profanity(text): a word of the censor list occurs.
CensorWords == { <<"d", "a", "m", "n">> }

contains_profanity(text) ==
    \E i \in 1..Len(text), j \in 1..Len(text) :
        i <= j /\ SubSeq(text, i, j) \in CensorWords

\* calculate_profanity_score: 0.0 for a blank text, 0.8 when profanity is
\* detected, 0.1 otherwise.
calculate_profanity_score(text) ==
    IF Strip(text) = <<>> THEN 0
    ELSE IF contains_profanity(text) THEN 80
    ELSE 10

\* A mutant of select_provider: no branch for a single provider.
select_provider_no_shortcut(providers, prompt) ==
    IF providers = {}
    THEN [raised |-> TRUE, err |-> NoProvidersMsg, provider |-> "none"]
    ELSE IF calculate_profanity_score(prompt) > profanity_threshold
            /\ "xai" \in providers
    THEN [raised |-> FALSE, err |-> "null", provider |-> "xai"]
    ELSE [raised |-> FALSE, err |-> "null", provider |-> default_provider]

\* A mutant of select_provider: the profanity score is not used.
select_provider_always_default(providers, prompt) ==
    IF providers = {}
    THEN [raised |-> TRUE, err |-> NoProvidersMsg, provider |-> "none"]
    ELSE IF Cardinality(providers) = 1
    THEN [raised |-> FALSE, err |-> "null",
          provider |-> CHOOSE p \in providers : TRUE]
    ELSE [raised |-> FALSE, err |-> "null", provider |-> default_provider]

\* select_provider: ValueError without providers; the only provider when
\* there is one; else "xai" when the score is above the threshold and xai is
\* configured, else the default provider.
select_provider(providers, prompt) ==
    IF providers = {}
    THEN [raised |-> TRUE, err |-> NoProvidersMsg, provider |-> "none"]
    ELSE IF Cardinality(providers) = 1
    THEN [raised |-> FALSE, err |-> "null",
          provider |-> CHOOSE p \in providers : TRUE]
    ELSE IF calculate_profanity_score(prompt) > profanity_threshold
            /\ "xai" \in providers
    THEN [raised |-> FALSE, err |-> "null", provider |-> "xai"]
    ELSE [raised |-> FALSE, err |-> "null", provider |-> default_provider]

\* A mutant of generate_attempt: the provider name is not checked against
\* the configured providers.
generate_attempt_no_check(providers, prompt, provider, backend) ==
    LET sel == IF provider = "none" THEN select_provider(providers, prompt)
               ELSE [raised |-> FALSE, err |-> "null", provider |-> provider]
    IN  IF sel.raised
        THEN [raised |-> TRUE, err |-> sel.err, provider |-> "none",
              requested |-> FALSE]
        ELSE [raised |-> backend # "ok",
              err |-> IF backend = "ok" THEN "null" ELSE backend,
              provider |-> sel.provider, requested |-> TRUE]

\* One execution of the body of generate. provider is the explicit argument
\* ("none" for None), backend how the provider's backend answers if it is
\* asked.
\*   raised     an exception leaves the body, err its message
\*   provider   the provider the body settled on
\*   requested  a request was issued to that provider's backend
generate_attempt(providers, prompt, provider, backend) ==
    IF providers = {}
    THEN [raised |-> TRUE, err |-> NoProvidersMsg, provider |-> "none",
          requested |-> FALSE]
    ELSE LET sel == IF provider = "none"
                    THEN select_provider(providers, prompt)
                    ELSE [raised |-> FALSE, err |-> "null", provider |-> provider]
         IN  IF sel.raised
             THEN [raised |-> TRUE, err |-> sel.err, provider |-> "none",
                   requested |-> FALSE]
             ELSE IF sel.provider \notin providers
             THEN [raised |-> TRUE, err |-> UnknownProviderMsg,
                   provider |-> sel.provider, requested |-> FALSE]
             ELSE [raised |-> backend # "ok",
                   err |-> IF backend = "ok" THEN "null" ELSE backend,
                   provider |-> sel.provider, requested |-> TRUE]

\* A mutant of AfterAttempt: a failed attempt is not retried.
AfterAttemptNoRetry(attempts, raised) ==
    IF ~raised THEN "returned" ELSE "raised"

\* The retry policy on generate, stop_after_attempt(3) with reraise=True:
\* where the call stands once its attempt number `attempts` has ended.
AfterAttempt(attempts, raised) ==
    IF ~raised THEN "returned"
    ELSE IF attempts < MaxAttempts THEN "wait"
    ELSE "raised"

Min(a, b) == IF a < b THEN a ELSE b
Max(a, b) == IF a > b THEN a ELSE b

\* wait_exponential: multiplier * 2^(attempt_number - 1), kept in [min, max].
wait_exponential(attempt_number) ==
    Max(wait_min, Min(wait_multiplier * 2 ^ (attempt_number - 1), wait_max))

\* router: the configured providers (providers the keys, config the
\* ProviderConfig of each), the call under way and its arguments, the
\* attempts made with how each ended, the backends asked (requests) and what
\* each was sent (sent), the waits slept, and what the caller got.
\* overridden: an earlier call sent a request with overrides.
InitRouter ==
    /\ store = [id \in RowIds |-> NoRow]
    /\ run = [r \in Requests |-> InitRun]
    /\ session = [r \in Requests |-> EmptySession]
    /\ response = [r \in Requests |-> NoResponse]
    /\ memeQueue = {}
    /\ statusResp = NoStatus
    /\ trigger = NoTrigger
    /\ vector = NoVector
    /\ masking = NoMasking
    /\ \E providers \in SUBSET KnownProviders :
          router = [pc |-> "idle", providers |-> providers,
                    config |-> [p \in providers |-> ProviderDefaults(p)],
                    calls |-> 0,
                    prompt |-> <<>>, provider |-> "none",
                    overrides |-> NoOverrides, overridden |-> FALSE,
                    attempts |-> 0, history |-> <<>>, requests |-> <<>>,
                    sent |-> <<>>,
                    waits |-> <<>>, result |-> "none", err |-> "null",
                    selected |-> "none"]

\* A direct call of select_provider(prompt).
SelectProviderCall ==
    /\ router.pc = "idle"
    /\ router.calls = 0
    /\ \E prompt \in Prompts :
         LET sel == select_provider(router.providers, prompt)
         IN  router' = [router EXCEPT !.pc = "selected", !.prompt = prompt,
                                      !.selected = sel.provider,
                                      !.err = sel.err]
    /\ UNCHANGED <<store, run, session, response, memeQueue, statusResp, trigger,
                   vector, masking>>

\* A caller calls generate(prompt, provider).
GenerateCall ==
    /\ router.pc \in {"idle", "returned", "raised"}
    /\ router.calls < MaxGenerateCalls
    /\ \E prompt \in Prompts, provider \in ProviderArgs,
          overrides \in OverrideSets :
         router' = [router EXCEPT !.pc = "attempt", !.calls = @ + 1,
                                  !.prompt = prompt, !.provider = provider,
                                  !.overrides = overrides,
                                  !.overridden =
                                      @ \/ (router.sent # <<>>
                                            /\ router.overrides # NoOverrides),
                                  !.attempts = 0, !.history = <<>>,
                                  !.requests = <<>>, !.sent = <<>>,
                                  !.waits = <<>>,
                                  !.result = "none", !.err = "null"]
    /\ UNCHANGED <<store, run, session, response, memeQueue, statusResp, trigger,
                   vector, masking>>

\* One attempt of the call: the body runs; its return value goes to the
\* caller, its exception to the retry policy.
GenerateAttempt ==
    /\ router.pc = "attempt"
    /\ \E backend \in BackendOutcomes :
         LET out == generate_attempt(router.providers, router.prompt,
                                     router.provider, backend)
             n == router.attempts + 1
         IN  router' = [router EXCEPT
                          !.pc = AfterAttempt(n, out.raised),
                          !.attempts = n,
                          !.history = Append(@, IF out.raised THEN out.err ELSE "ok"),
                          !.requests = IF out.requested
                                       THEN Append(@, out.provider) ELSE @,
                          !.sent = IF out.requested
                                      /\ out.provider \in DOMAIN router.config
                                   THEN Append(@,
                                          [provider |-> out.provider,
                                           params |-> request_params(
                                               router.config[out.provider],
                                               router.prompt, router.overrides)])
                                   ELSE @,
                          !.config = IF out.requested
                                     THEN config_after_request(
                                              @, out.provider, router.overrides)
                                     ELSE @,
                          !.result = IF out.raised THEN "none" ELSE out.provider,
                          !.err = IF out.raised THEN out.err ELSE "null"]
    /\ UNCHANGED <<store, run, session, response, memeQueue, statusResp, trigger,
                   vector, masking>>

\* The sleep between two attempts.
Backoff ==
    /\ router.pc = "wait"
    /\ router' = [router EXCEPT
                     !.pc = "attempt",
                     !.waits = Append(@, wait_exponential(router.attempts))]
    /\ UNCHANGED <<store, run, session, response, memeQueue, statusResp, trigger,
                   vector, masking>>

NextRouter ==
    \/ SelectProviderCall
    \/ GenerateCall
    \/ GenerateAttempt
    \/ Backoff

SpecRouter == InitRouter /\ [][NextRouter]_vars

----------------------------------------------------------------------------
(* generate_meme_if_needed called on its own, as the unit tests call it *)

\* Number of direct calls of the trigger.
MaxTriggerCalls == 2

\* The analyses the trigger is called with: those analyze_with_llm can give,
\* and an empty dict (`.get("is_sensational", False)` is then False).
TriggerAnalyses ==
    { analyze_with_llm(llm_ok, content) :
        llm_ok \in BOOLEAN, content \in LLMContents } \cup {NoAnalysis}

\* trigger: the calls made so far, the arguments and the outcome of the last
\* one, the calls of delay() counted by the mock, the jobs on the queue.
InitTrigger ==
    /\ store = [id \in RowIds |-> NoRow]
    /\ run = [r \in Requests |-> InitRun]
    /\ session = [r \in Requests |-> EmptySession]
    /\ response = [r \in Requests |-> NoResponse]
    /\ memeQueue = {}
    /\ statusResp = NoStatus
    /\ router = NoRouter
    /\ vector = NoVector
    /\ masking = NoMasking
    /\ trigger = [pc |-> "idle", calls |-> 0, analysis |-> NoAnalysis,
                  original_text |-> NoText, delay_ok |-> FALSE,
                  raised |-> FALSE, meme_data |-> NoMeme,
                  delays |-> 0, queue |-> {}]

TriggerCall ==
    /\ trigger.calls < MaxTriggerCalls
    /\ \E analysis \in TriggerAnalyses, text \in Texts, delay_ok \in BOOLEAN :
         LET task_id == trigger.delays + 1
             out == generate_meme_if_needed(analysis, delay_ok, task_id)
         IN  trigger' =
                [pc |-> "called", calls |-> trigger.calls + 1,
                 analysis |-> analysis, original_text |-> text,
                 delay_ok |-> delay_ok,
                 raised |-> out.raised, meme_data |-> out.meme_data,
                 delays |-> IF out.delayed THEN trigger.delays + 1
                            ELSE trigger.delays,
                 queue |-> IF out.enqueued
                           THEN trigger.queue \cup
                                  {[task_id |-> task_id, headline |-> text,
                                    analysis |-> analysis.analysis,
                                    style |-> "funny, satirical"]}
                           ELSE trigger.queue]
    /\ UNCHANGED <<store, run, session, response, memeQueue, statusResp, router,
                   vector, masking>>

NextTrigger == TriggerCall

SpecTrigger == InitTrigger /\ [][NextTrigger]_vars

----------------------------------------------------------------------------
(* mask_entities called on its own, over texts and recognised spans *)

\* The most entities the recogniser reports for one text.
MaxEntities == 2

\* Texts given to mask_entities.
MaskTexts ==
    { <<"J">>, <<"J", " ", "J">>, <<"J", "o", " ", "D">>, <<"N">>,
      <<"a", " ", "J", " ", "9">>, <<"O", "R", "G">> }

\* The labels the recogniser gives; DATE is outside entity_types.
SpanLabels == {"PERSON", "ORG", "DATE"}

\* The spans the recogniser may report: [start, end) in characters, not
\* beginning or ending on a space, each with a label.
CandidateSpans(text) ==
    { [start |-> a, end |-> b, label |-> l] :
        a \in 0..Len(text), b \in 0..Len(text), l \in SpanLabels }

ValidSpan(text, e) ==
    /\ e.start < e.end
    /\ ~IsSpace(text[e.start + 1])
    /\ ~IsSpace(text[e.end])

\* doc.ents: the entities of a document do not overlap.
NonOverlapping(ents) ==
    \A x \in ents, y \in ents : x = y \/ x.end <= y.start \/ y.end <= x.start

\* What nlp(text).ents may be, the recogniser being a statistical model.
RecognisedSets(text) ==
    { ents \in SUBSET { e \in CandidateSpans(text) : ValidSpan(text, e) } :
        Cardinality(ents) <= MaxEntities /\ NonOverlapping(ents) }

\* masking: the text, what the recogniser reported for it, and what
\* mask_entities returned.
InitMasking ==
    /\ store = [id \in RowIds |-> NoRow]
    /\ run = [r \in Requests |-> InitRun]
    /\ session = [r \in Requests |-> EmptySession]
    /\ response = [r \in Requests |-> NoResponse]
    /\ memeQueue = {}
    /\ statusResp = NoStatus
    /\ router = NoRouter
    /\ trigger = NoTrigger
    /\ vector = NoVector
    /\ \E text \in MaskTexts :
          \E ents \in RecognisedSets(text) :
              masking = [pc |-> "idle", text |-> text, ents |-> ents,
                         masked_text |-> NoText, entities |-> <<>>]

MaskCall ==
    /\ masking.pc = "idle"
    /\ LET m == mask_entities(masking.text, masking.ents)
       IN  masking' = [masking EXCEPT !.pc = "called",
                                      !.masked_text = m.masked_text,
                                      !.entities = m.entities]
    /\ UNCHANGED <<store, run, session, response, memeQueue, statusResp, router,
                   trigger, vector>>

NextMasking == MaskCall

SpecMasking == InitMasking /\ [][NextMasking]_vars

----------------------------------------------------------------------------
(* VectorService: the client of the similarity index *)

\* The most point ids used in one collection.
MaxPoints == 2

VectorNames == {"test_collection", "test_new_collection"}
PointIds == 1..MaxPoints

\* Vectors of two components: e1 = (1, 0) and d = (0.6, 0.8).
Vectors == {"e1", "d"}
VectorSize(v) == 2

\* The sizes a collection is created with.
Dims == {2, 4}

\* Cosine similarity in hundredths.
Cosine(q, v) == IF q = v THEN 100 ELSE 60

Categories == {"test", "demo"}
NoFilter == "none"

NoCollection == [dim |-> 0]
NoPoint == [vector |-> "none"]

\* What the backend answers a call with: it serves it, or is unreachable.
IndexOutcomes == {"ok", "unreachable"}

\* client.create_collection: refused for a name that exists.
CreateCollection(collections, name, dim) ==
    IF collections[name] # NoCollection
    THEN [raised |-> TRUE, collections |-> collections]
    ELSE [raised |-> FALSE,
          collections |-> [collections EXCEPT ![name] =
              [dim |-> dim, points |-> [i \in PointIds |-> NoPoint]]]]

\* A mutant of ensure_collection: no look at the existing names.
ensure_collection_always_creates(collections, name, dim, backend) ==
    IF backend # "ok"
    THEN [raised |-> FALSE, success |-> FALSE, collections |-> collections]
    ELSE LET c == CreateCollection(collections, name, dim)
         IN  [raised |-> FALSE, success |-> ~c.raised, collections |-> c.collections]

\* ensure_collection: create the collection unless its name is listed;
\* False when a call to the backend raises.
ensure_collection(collections, name, dim, backend) ==
    IF backend # "ok"
    THEN [raised |-> FALSE, success |-> FALSE, collections |-> collections]
    ELSE IF collections[name] = NoCollection
         THEN LET c == CreateCollection(collections, name, dim)
              IN  [raised |-> FALSE, success |-> ~c.raised,
                   collections |-> c.collections]
         ELSE [raised |-> FALSE, success |-> TRUE, collections |-> collections]

\* client.upsert(points=[point], wait=True): refused for a missing collection
\* and for a vector of another size.
ClientUpsert(collections, name, id, vec, payload, backend) ==
    IF \/ backend # "ok"
       \/ collections[name] = NoCollection
       \/ collections[name].dim # VectorSize(vec)
    THEN [raised |-> TRUE, collections |-> collections]
    ELSE [raised |-> FALSE,
          collections |-> [collections EXCEPT ![name].points[id] =
              [vector |-> vec, payload |-> payload]]]

\* A mutant of upsert: the failure of the backend escapes.
upsert_raises(collections, name, id, vec, payload, backend) ==
    LET u == ClientUpsert(collections, name, id, vec, payload, backend)
    IN  [raised |-> u.raised, success |-> ~u.raised, collections |-> u.collections]

\* upsert: True when the point is written, False when the backend raises.
upsert(collections, name, id, vec, payload, backend) ==
    LET u == ClientUpsert(collections, name, id, vec, payload, backend)
    IN  [raised |-> FALSE, success |-> ~u.raised, collections |-> u.collections]

\* The hits for a query among ids, nearest first (ties by id).
RECURSIVE NearestFirst(_, _, _)
NearestFirst(points, query, ids) ==
    IF ids = {} THEN <<>>
    ELSE LET best == CHOOSE i \in ids : \A j \in ids :
                         \/ Cosine(query, points[i].vector) > Cosine(query, points[j].vector)
                         \/ /\ Cosine(query, points[i].vector) = Cosine(query, points[j].vector)
                            /\ i <= j
         IN  <<[id |-> best, score |-> Cosine(query, points[best].vector),
                payload |-> points[best].payload]>>
             \o NearestFirst(points, query, ids \ {best})

FirstN(seq, n) == SubSeq(seq, 1, IF n < Len(seq) THEN n ELSE Len(seq))

\* client.search(query_vector, query_filter, limit=top_k): no score_threshold
\* is passed.
ClientSearch(collections, name, query, top_k, filter, backend) ==
    IF backend # "ok" \/ collections[name] = NoCollection
    THEN [raised |-> TRUE, hits |-> <<>>]
    ELSE LET points == collections[name].points
             ids == { i \in PointIds :
                        /\ points[i] # NoPoint
                        /\ filter # NoFilter => points[i].payload = filter }
         IN  [raised |-> FALSE, hits |-> FirstN(NearestFirst(points, query, ids), top_k)]

\* A mutant of search: the failure of the backend escapes.
search_raises(collections, name, query, top_k, filter, backend) ==
    ClientSearch(collections, name, query, top_k, filter, backend)

\* search(collection_name, query_vector, top_k, filter_conditions): the hits
\* as {id, score, payload}; [] when the backend raises.
search(collections, name, query, top_k, filter, backend) ==
    [raised |-> FALSE,
     hits |-> ClientSearch(collections, name, query, top_k, filter, backend).hits]

\* The thresholds a caller of the contract's search asks for.
MinScores == {0, similarity_threshold}

\* The query vectors and filter_conditions of the searches.
Queries == {"e1"}
Filters == {NoFilter, "test"}

NoCall == [op |-> "none"]

InitVector ==
    /\ store = [id \in RowIds |-> NoRow]
    /\ run = [r \in Requests |-> InitRun]
    /\ session = [r \in Requests |-> EmptySession]
    /\ response = [r \in Requests |-> NoResponse]
    /\ memeQueue = {}
    /\ statusResp = NoStatus
    /\ router = NoRouter
    /\ trigger = NoTrigger
    /\ masking = NoMasking
    /\ vector = [pc |-> "ready",
                 collections |-> [n \in VectorNames |-> NoCollection],
                 last |-> NoCall]

EnsureCollectionCall ==
    /\ vector.pc = "ready"
    /\ \E name \in VectorNames, dim \in Dims, backend \in IndexOutcomes :
          LET out == ensure_collection(vector.collections, name, dim, backend)
          IN  vector' = [vector EXCEPT
                  !.collections = out.collections,
                  !.last = [op |-> "ensure_collection", name |-> name,
                            existed |-> vector.collections[name] # NoCollection,
                            backend |-> backend, raised |-> out.raised,
                            success |-> out.success]]
    /\ UNCHANGED <<store, run, session, response, memeQueue, statusResp, router,
                   trigger, masking>>

UpsertCall ==
    /\ vector.pc = "ready"
    /\ \E name \in VectorNames, id \in PointIds, v \in Vectors,
          payload \in Categories, backend \in IndexOutcomes :
          LET out == upsert(vector.collections, name, id, v, payload, backend)
          IN  vector' = [vector EXCEPT
                  !.collections = out.collections,
                  !.last = [op |-> "upsert", name |-> name,
                            backend |-> backend, raised |-> out.raised,
                            success |-> out.success]]
    /\ UNCHANGED <<store, run, session, response, memeQueue, statusResp, router,
                   trigger, masking>>

\* search has no parameter for min_score: the threshold the caller wants is
\* kept beside the call.
SearchCall ==
    /\ vector.pc = "ready"
    /\ \E name \in VectorNames, query \in Queries, top_k \in 1..MaxPoints,
          filter \in Filters, min_score \in MinScores,
          backend \in IndexOutcomes :
          LET out == search(vector.collections, name, query, top_k, filter, backend)
          IN  vector' = [vector EXCEPT
                  !.last = [op |-> "search", name |-> name, top_k |-> top_k,
                            min_score |-> min_score,
                            backend |-> backend, raised |-> out.raised,
                            hits |-> out.hits]]
    /\ UNCHANGED <<store, run, session, response, memeQueue, statusResp, router,
                   trigger, masking>>

NextVector == EnsureCollectionCall \/ UpsertCall \/ SearchCall

SpecVector == InitVector /\ [][NextVector]_vars

----------------------------------------------------------------------------
(* Claims *)

AllSpaces(t) == \A i \in 1..Len(t) : t[i] = " "

IsPrefix(s, t) == Len(s) <= Len(t) /\ s = SubSeq(t, 1, Len(s))

Accepted(r) == run[r].pc \notin {"new", "rejected"}

\* process() of request r has ended, by return or by exception.
ProcessEnded(r) == run[r].result # "none"

\* C1: process(text) with an empty or whitespace-only text raises the
\* invalid-input error before any side effect: no stage (mask, embed,
\* search, LLM, meme, persist) is begun, nothing is enqueued, nothing is
\* added, committed or written for that run.
C1_EmptyTextNoSideEffect ==
    \A r \in Requests :
        (Accepted(r) /\ AllSpaces(run[r].text)) =>
            /\ run[r].pc \notin {"mask", "embed", "search", "llm", "meme",
                                 "save", "return"}
            /\ run[r].stages = <<>>
            /\ run[r].masked_text = NoText
            /\ run[r].embedding = NoText
            /\ run[r].searched = "none"
            /\ run[r].attempts = 0 /\ run[r].llm = "none"
            /\ run[r].enqueues = 0
            /\ \A j \in memeQueue : j.headline # run[r].text
            /\ run[r].adds = 0 /\ run[r].commits = 0
            /\ store[PipelineId(r)] = NoRow
            /\ ~run[r].returned
            /\ run[r].pc = "bg_update" =>
                  run[r].result = "error" /\ run[r].err = EmptyTextMsg

C1_Witness ==
    \E r \in Requests :
        /\ run[r].text = <<" ">>
        /\ run[r].pc = "done"
        /\ run[r].result = "error"

\* C2 (as claimed): for a non-empty text, process() raises only when the
\* persistence step failed, and persistence is attempted whatever the
\* earlier stages did.
C2_OnlyPersistenceAborts ==
    \A r \in Requests :
        (ProcessEnded(r) /\ ~AllSpaces(run[r].text)) =>
            /\ run[r].saved # "none"
            /\ run[r].result = "error" =>
                  run[r].saved \in {"commit_failed", "refresh_failed"}

\* The orders in which process() may begin its stages.
StageOrders ==
    { <<"mask", "embed", "search", "llm", m, "persist", "return">> :
        m \in {"meme", "skip"} }

\* C3: within one process() invocation the stages begin in the order mask,
\* embed, search, LLM analysis, meme trigger or skip, persist, return; none
\* is begun twice, and the return comes only after the persistence step.
C3_StagesInOrder ==
    \A r \in Requests :
        /\ \E o \in StageOrders : IsPrefix(run[r].stages, o)
        /\ run[r].returned =>
              /\ Len(run[r].stages) = 7
              /\ run[r].stages[6] = "persist"
              /\ run[r].saved = "ok"

C3_Witness ==
    \E r \in Requests :
        /\ run[r].returned
        /\ run[r].stages =
             <<"mask", "embed", "search", "llm", "meme", "persist", "return">>

\* C4: when the search call of the similarity index fails, process() goes on
\* with an empty similar_items list: it never ends before the persistence
\* step, and the result it returns and the row it saves carry similar_items
\* = [].
C4_SearchFailureDegrades ==
    \A r \in Requests :
        run[r].searched = "failed" =>
            /\ run[r].similar_items = <<>>
            /\ ProcessEnded(r) => run[r].saved # "none"
            /\ run[r].pc \in {"llm", "meme", "save", "return"} \/ ProcessEnded(r)
            /\ run[r].saved \in {"ok", "refresh_failed"} =>
                  store[PipelineId(r)].similar_items = <<>>
            /\ run[r].saved = "ok" /\ ProcessEnded(r) => run[r].returned

C4_Witness ==
    \E r \in Requests :
        /\ run[r].searched = "failed"
        /\ run[r].returned
        /\ run[r].similar_items = <<>>
        /\ \E q \in Requests : Len(run[q].similar_items) = 3

\* C5: when the LLM call fails after its retries, or its content does not
\* parse, analyze_with_llm returns exactly the fallback analysis, process()
\* goes on to the persistence step, and the row it saves carries the
\* fallback values.
C5_LLMFailureFallsBack ==
    \A r \in Requests :
        run[r].llm \in {"failed", "unparseable"} =>
            /\ run[r].analysis =
                 [analysis |-> "Unable to generate analysis due to an error.",
                  is_sensational |-> FALSE, confidence |-> 0, key_points |-> <<>>]
            /\ ProcessEnded(r) => run[r].saved # "none"
            /\ run[r].saved \in {"ok", "refresh_failed"} =>
                 LET row == store[PipelineId(r)] IN
                 /\ row.analysis = "Unable to generate analysis due to an error."
                 /\ row.is_sensational = FALSE
                 /\ row.confidence = 0
                 /\ row.key_points = <<>>
                 /\ row.meme_task_id = NoId

C5_Witness ==
    /\ \E r \in Requests : run[r].llm = "failed" /\ run[r].saved = "ok"
    /\ \E r \in Requests : run[r].llm = "unparseable" /\ run[r].saved = "ok"

\* The rows of the table written by save_to_detox_items in the run of r.
PipelineRows(r) ==
    { id \in RowIds : store[id].creator = "pipeline" /\ store[id].req = r }

C7_StatusChangesOnce ==
    [][\A id \in RowIds :
        /\ (store[id] = NoRow /\ store'[id] # NoRow /\ store'[id].creator = "accept")
              => store'[id].status = "pending"
        /\ (store[id] # NoRow /\ store'[id] # store[id])
              => /\ store[id].status = "pending"
                 /\ store'[id].status \in {"completed", "error"}
                 /\ store'[id].id = id
                 /\ store'[id].original_text = store[id].original_text]_vars

C7_Witness ==
    /\ \E r \in Requests :
         run[r].pc = "done" /\ store[AcceptId(r)].status = "completed"
    /\ \E r \in Requests :
         run[r].pc = "done" /\ store[AcceptId(r)].status = "error"

\* The message of the exception save_to_detox_items raised in the run of r.
PersistenceMsg(r) ==
    IF run[r].saved = "commit_failed" THEN SaveCommitFailMsg ELSE RefreshFailMsg

\* C8 (as claimed): when the persistence step of a background run fails,
\* nothing is raised out of the background run; the row of the request gets
\* status error with the persistence failure's message, and when that
\* second write fails the row keeps the state it had.
C8_PersistenceFailureContained ==
    \A r \in Requests :
        (run[r].saved \in {"commit_failed", "refresh_failed"}
            /\ run[r].pc \in {"done", "raised"}) =>
            /\ run[r].pc = "done"
            /\ IF run[r].updated = "ok"
               THEN /\ store[AcceptId(r)].status = "error"
                    /\ store[AcceptId(r)].error = PersistenceMsg(r)
               ELSE store[AcceptId(r)] =
                        PendingRow(r, run[r].text, run[r].user)

\* C9 (as claimed): the row created by the accept endpoint is the only
\* detox_items row written for a request.
C9_OnlyAcceptRow ==
    \A id \in RowIds : store[id] # NoRow => store[id].creator = "accept"

\* C10: a background run is scheduled, and 202 answered, only with the
\* pending row committed; the answer carries the row's id, status pending
\* and the original text, and nothing the background run does changes it.
C10_AcceptedBeforeScheduled ==
    /\ [](\A r \in Requests :
            /\ Accepted(r) =>
                 /\ store[AcceptId(r)] # NoRow
                 /\ store[AcceptId(r)].original_text = run[r].text
                 /\ response[r] = [code |-> 202, id |-> AcceptId(r),
                                   status |-> "pending",
                                   original_text |-> run[r].text]
            /\ run[r].pc = "rejected" => response[r].code = 500)
    /\ [][\A r \in Requests :
            response[r] # NoResponse => response'[r] = response[r]]_vars

C10_Witness ==
    \E r \in Requests :
        /\ run[r].pc = "done"
        /\ run[r].result = "error"
        /\ run[r].stages # <<>>
        /\ store[AcceptId(r)].status = "error"
        /\ response[r].code = 202 /\ response[r].status = "pending"

----------------------------------------------------------------------------
(* Claims on the status endpoint *)

\* C11: the status endpoint answers 404 for an id that has no record and
\* 403 whenever the caller is neither the record's submitter nor a
\* superuser; the fields of a record are answered only to its submitter or a
\* superuser. Stated for every id and caller over every reachable table
\* (when the lookup itself answers), and for the answer that is outstanding.
C11_StatusAccessControl ==
    /\ \A id \in RowIds, caller \in Callers :
          LET resp == get_detox_status(id, caller, TRUE)
              fail == get_detox_status(id, caller, FALSE)
              allowed == caller = store[id].user_id \/ caller \in Superusers
          IN  /\ store[id] = NoRow => resp.code = 404
              /\ (store[id] # NoRow /\ ~allowed) => resp.code = 403
              /\ resp.code = 200 => (store[id] # NoRow /\ allowed)
              /\ \A a \in {resp, fail} :
                    a.code # 200 =>
                        /\ a.id = NoId /\ a.status = "null"
                        /\ a.original_text = NoText /\ a.error = "null"
                        /\ a.meme_task_id = NoId
    /\ statusResp.code \in {0, 200, 403, 404, 500}
    /\ statusResp.code = 200 => store[statusResp.id] # NoRow
    /\ statusResp.code = 403 =>
          \E id \in RowIds, caller \in Callers :
              /\ store[id] # NoRow
              /\ caller # store[id].user_id /\ caller \notin Superusers
    /\ statusResp.code = 404 => \E id \in RowIds : store[id] = NoRow
    /\ statusResp.code \notin {0, 200} => statusResp = HttpError(statusResp.code)

\* The only records are submitted ones, and a read was answered 403: the
\* caller was a user other than the record's submitter.
C11_Witness ==
    /\ statusResp.code = 403
    /\ \E id \in RowIds : store[id] # NoRow
    /\ \A id \in RowIds :
          store[id] # NoRow =>
              store[id].creator = "accept" /\ store[id].user_id \in Users

\* The message of the exception that made the run of r write status error:
\* the one process() raised, or the one the commit of the update raised.
FailureMsg(r) ==
    IF run[r].updated = "failed" THEN UpdateCommitFailMsg
    ELSE IF AllSpaces(run[r].text) THEN EmptyTextMsg
    ELSE IF run[r].saved \in {"commit_failed", "refresh_failed"} THEN PersistenceMsg(r)
    ELSE EmbedFailMsg

----------------------------------------------------------------------------
(* Claims on the meme trigger *)

\* C13: generate_meme_if_needed called with an analysis whose is_sensational
\* is false returns None and does not call the enqueue (delay) at all: the
\* call count and the queue are as before the call.
C13_TriggerGate ==
    [][ (trigger'.calls = trigger.calls + 1
            /\ ~trigger'.analysis.is_sensational) =>
            /\ trigger'.meme_data = NoMeme
            /\ ~trigger'.raised
            /\ trigger'.delays = trigger.delays
            /\ trigger'.queue = trigger.queue ]_vars

\* After a call that enqueued, a call with a non-sensational analysis, made
\* while the queue would have accepted a job.
C13_Witness ==
    /\ trigger.calls = 2
    /\ trigger.delays = 1
    /\ ~trigger.analysis.is_sensational
    /\ trigger.delay_ok
    /\ trigger.meme_data = NoMeme

\* The meme step of process() in the run of r is over, taken or skipped.
MemeDone(r) ==
    \E i \in 1..Len(run[r].stages) : run[r].stages[i] \in {"meme", "skip"}

\* The jobs on the queue that the run of r enqueued.
JobsOf(r) == { j \in memeQueue : j.task_id = TaskId(r, 1) }

\* C14: in one process() call the enqueue is called at most once, and it is
\* called if and only if generate_meme is true and the analysis is
\* sensational; at most one job of the run is on the queue; in every other
\* case the step is skipped and meme_data is None.
C14_MemeAtMostOnce ==
    \A r \in Requests :
        LET wanted == run[r].generate_meme /\ run[r].analysis.is_sensational
            taken == \E i \in 1..Len(run[r].stages) : run[r].stages[i] = "meme"
            skipped == \E i \in 1..Len(run[r].stages) : run[r].stages[i] = "skip"
        IN  /\ run[r].delays <= 1
            /\ run[r].enqueues <= run[r].delays
            /\ Cardinality(JobsOf(r)) = run[r].enqueues
            /\ ~MemeDone(r) => (run[r].delays = 0 /\ run[r].meme_data = NoMeme)
            /\ MemeDone(r) =>
                  /\ run[r].delays = 1 <=> wanted
                  /\ taken <=> wanted
                  /\ skipped <=> ~wanted
                  /\ ~wanted => (run[r].meme_data = NoMeme /\ run[r].enqueues = 0)
                  /\ run[r].enqueues = 1 <=> run[r].meme_data # NoMeme

\* One run enqueued its job; another, asked for a meme, skipped the step
\* because its analysis was not sensational, and returned.
C14_Witness ==
    \E r1, r2 \in Requests :
        /\ MemeDone(r1) /\ run[r1].enqueues = 1 /\ JobsOf(r1) # {}
        /\ MemeDone(r2) /\ run[r2].delays = 0
        /\ run[r2].generate_meme /\ run[r2].llm = "ok"
        /\ ~run[r2].analysis.is_sensational
        /\ run[r2].returned

\* C15: when the enqueue raises, the trigger returns None instead of
\* raising; process() goes on to persistence and, unless persistence fails,
\* returns a result with meme_data None; the rows written carry no
\* meme_task_id.
C15_EnqueueFailureDegrades ==
    \A r \in Requests :
        (run[r].delays = 1 /\ run[r].enqueues = 0) =>
            /\ run[r].meme_data = NoMeme
            /\ JobsOf(r) = {}
            /\ \/ run[r].pc = "save"
               \/ \E i \in 1..Len(run[r].stages) : run[r].stages[i] = "persist"
            /\ run[r].result = "error" =>
                  run[r].saved \in {"commit_failed", "refresh_failed"}
            /\ run[r].saved = "ok" =>
                  (run[r].pc = "return" \/ run[r].returned)
            /\ run[r].returned => run[r].result = "completed"
            /\ \A id \in {AcceptId(r), PipelineId(r)} :
                  store[id] # NoRow =>
                      /\ store[id].meme_task_id = NoId
                      /\ store[id].meme_status = "null"

\* A run whose enqueue raised has returned and its record is completed.
C15_Witness ==
    \E r \in Requests :
        /\ run[r].delays = 1 /\ run[r].enqueues = 0
        /\ run[r].returned
        /\ store[PipelineId(r)] # NoRow
        /\ store[AcceptId(r)].status = "completed"

\* C16: with a sensational analysis, generate_meme true and a successful
\* enqueue, meme_data is {task_id, status pending} and every row written
\* after it in that run carries that task_id; no row ever carries a
\* meme_task_id other than the one an enqueue of its own run returned.
C16_MemeTaskIdPersisted ==
    /\ \A r \in Requests :
          run[r].enqueues = 1 =>
              /\ run[r].generate_meme /\ run[r].analysis.is_sensational
              /\ run[r].meme_data = [task_id |-> TaskId(r, 1), status |-> "pending"]
              /\ run[r].meme_data.task_id # NoId
              /\ \E j \in memeQueue :
                    j.task_id = run[r].meme_data.task_id /\ j.headline = run[r].text
              /\ run[r].saved \in {"ok", "refresh_failed"} =>
                    /\ store[PipelineId(r)].meme_task_id = run[r].meme_data.task_id
                    /\ store[PipelineId(r)].meme_status = "pending"
              /\ store[AcceptId(r)].status = "completed" =>
                    /\ store[AcceptId(r)].meme_task_id = run[r].meme_data.task_id
                    /\ store[AcceptId(r)].meme_status = "pending"
    /\ \A id \in RowIds :
          (store[id] # NoRow /\ store[id].meme_task_id # NoId) =>
              /\ run[store[id].req].enqueues = 1
              /\ store[id].meme_task_id = run[store[id].req].meme_data.task_id
              /\ \E j \in memeQueue : j.task_id = store[id].meme_task_id

\* Both rows of a run that enqueued carry its task id, next to a run that
\* enqueued nothing.
C16_Witness ==
    \E r1, r2 \in Requests :
        /\ run[r1].enqueues = 1 /\ run[r1].returned
        /\ run[r1].analysis.confidence = 90
        /\ store[PipelineId(r1)].meme_task_id = TaskId(r1, 1)
        /\ store[AcceptId(r1)].status = "completed"
        /\ store[AcceptId(r1)].meme_task_id = TaskId(r1, 1)
        /\ run[r2].returned /\ run[r2].enqueues = 0
        /\ store[PipelineId(r2)].meme_task_id = NoId

----------------------------------------------------------------------------
(* Claims on the LLM router *)

\* A call of generate is under way or has ended.
InGenerate == router.pc \in {"attempt", "wait", "returned", "raised"}

\* C17: with exactly one provider configured, select_provider returns that
\* provider for every prompt, whatever the prompt's profanity score and
\* whether or not the provider is the default one; generate without an
\* explicit provider then asks that provider only.
C17_SingleProvider ==
    Cardinality(router.providers) = 1 =>
        /\ \A prompt \in Prompts :
              LET sel == select_provider(router.providers, prompt)
              IN  ~sel.raised /\ router.providers = {sel.provider}
        /\ router.pc = "selected" => router.providers = {router.selected}
        /\ (InGenerate /\ router.provider = "none") =>
              \A k \in 1..Len(router.requests) :
                  router.providers = {router.requests[k]}

\* Only xai is configured, which is not the default provider, and
\* select_provider returned it for a prompt without profanity.
C17_Witness ==
    /\ router.pc = "selected"
    /\ router.providers = {"xai"}
    /\ router.selected = "xai"
    /\ router.prompt = <<"h", "i">>

\* C18: with more than one provider configured, select_provider returns
\* xai exactly when the prompt's profanity score is above
\* profanity_threshold and xai is configured, and default_provider
\* otherwise; what it returns is one of the configured providers.
C18_ProfanityRouting ==
    /\ Cardinality(router.providers) > 1 =>
          /\ \A prompt \in Prompts :
                LET sel == select_provider(router.providers, prompt)
                    permissive ==
                        /\ calculate_profanity_score(prompt) > profanity_threshold
                        /\ "xai" \in router.providers
                IN  /\ ~sel.raised
                    /\ sel.provider = "xai" <=> permissive
                    /\ ~permissive => sel.provider = default_provider
                    /\ sel.provider \in router.providers
          /\ router.pc = "selected" =>
                /\ router.selected \in router.providers
                /\ router.selected = "xai" <=> contains_profanity(router.prompt)
    /\ \A prompt \in Prompts :
          LET sel == select_provider(router.providers, prompt)
          IN  ~sel.raised => sel.provider \in router.providers

\* Both providers are configured and a profane prompt was routed to xai.
C18_Witness ==
    /\ router.pc = "selected"
    /\ router.providers = {"openai", "xai"}
    /\ router.selected = "xai"
    /\ calculate_profanity_score(router.prompt) = 80

\* C19: generate raises the no-providers error when no provider is
\* configured, and the unknown-provider error when an explicit provider is
\* not among the configured ones; the call never returns a value and no
\* request is issued to any backend, on any of its attempts.
C19_ConfigErrors ==
    InGenerate =>
        /\ router.providers = {} =>
              /\ router.requests = <<>>
              /\ router.pc # "returned"
              /\ \A k \in 1..Len(router.history) : router.history[k] = NoProvidersMsg
              /\ router.pc = "raised" => router.err = NoProvidersMsg
        /\ (router.providers # {} /\ router.provider # "none"
                /\ router.provider \notin router.providers) =>
              /\ router.requests = <<>>
              /\ router.pc # "returned"
              /\ \A k \in 1..Len(router.history) :
                    router.history[k] = UnknownProviderMsg
              /\ router.pc = "raised" => router.err = UnknownProviderMsg

\* xai was asked for by name where only openai is configured, and the
\* caller got the unknown-provider error.
C19_Witness ==
    /\ router.pc = "raised"
    /\ router.providers = {"openai"}
    /\ router.provider = "xai"
    /\ router.err = UnknownProviderMsg
    /\ router.requests = <<>>

\* C20: a call of generate makes at most 3 attempts; it returns the result
\* of the first attempt that succeeds and makes no attempt after it; when
\* all 3 attempts fail the caller gets the exception of the last one.
C20_AtMostThreeAttempts ==
    InGenerate =>
        /\ router.attempts <= MaxAttempts
        /\ Len(router.history) = router.attempts
        /\ Len(router.requests) <= router.attempts
        /\ \A k \in 1..(router.attempts - 1) : router.history[k] # "ok"
        /\ router.pc \in {"attempt", "wait"} =>
              /\ router.attempts < MaxAttempts
              /\ \A k \in 1..router.attempts : router.history[k] # "ok"
              /\ router.result = "none"
        /\ router.pc = "returned" =>
              /\ router.attempts >= 1
              /\ router.history[router.attempts] = "ok"
              /\ router.result \in router.providers
              /\ router.err = "null"
        /\ router.pc = "raised" =>
              /\ router.attempts = MaxAttempts
              /\ router.history[MaxAttempts] # "ok"
              /\ router.err = router.history[MaxAttempts]
              /\ router.result = "none"

\* Three attempts failed, the last one differently, and the caller got the
\* last failure.
C20_Witness ==
    /\ router.pc = "raised"
    /\ router.history = <<"timeout", "timeout", "rate limited">>
    /\ router.err = "rate limited"
    /\ Len(router.requests) = 3

----------------------------------------------------------------------------
(* Claims on the requests of the LLM router *)

\* The provider a call of generate resolves to: the forced one, else
\* select_provider's choice.
ResolvedProvider ==
    IF router.provider # "none" THEN router.provider
    ELSE select_provider(router.providers, router.prompt).provider

\* C21: every request generate sends carries, for each of temperature,
\* max_tokens, top_p, frequency_penalty and presence_penalty, the per-call
\* override when one is given and the resolved provider's default
\* otherwise; the provider asked and the model named are those of the
\* resolved provider.
C21_RequestParams ==
    InGenerate =>
        /\ Len(router.sent) = Len(router.requests)
        /\ \A n \in 1..Len(router.sent) :
              LET req == router.sent[n]
                  defaults == ProviderDefaults(req.provider)
              IN  /\ req.provider = ResolvedProvider
                  /\ req.provider = router.requests[n]
                  /\ req.provider \in router.providers
                  /\ req.params["model"] = defaults.model
                  /\ req.params["messages"] = router.prompt
                  /\ \A k \in GenParams :
                        req.params[k] =
                            IF k \in DOMAIN router.overrides
                            THEN router.overrides[k]
                            ELSE defaults[k]

\* xai was forced for a clean prompt with two of the parameters overridden:
\* the request has the overrides, and xai's defaults for the rest.
C21_Witness ==
    /\ router.pc = "returned"
    /\ router.providers = {"openai", "xai"}
    /\ router.provider = "xai"
    /\ router.prompt = <<"h", "i">>
    /\ Len(router.sent) = 1
    /\ router.sent[1].provider = "xai"
    /\ router.sent[1].params["model"] = "grok-1"
    /\ router.sent[1].params["temperature"] = 30
    /\ router.sent[1].params["max_tokens"] = 500
    /\ router.sent[1].params["top_p"] = 100

\* C29: after construction no select_provider or generate step changes the
\* providers mapping or any provider's defaults; a call made after a call
\* with overrides, itself without overrides, sends the original defaults.
C29_ProvidersReadOnly ==
    /\ [][ /\ router'.providers = router.providers
            /\ router'.config = router.config ]_vars
    /\ [](/\ DOMAIN router.config = router.providers
           /\ \A p \in router.providers : router.config[p] = ProviderDefaults(p)
           /\ (InGenerate /\ router.overrides = NoOverrides) =>
                 \A n \in 1..Len(router.sent) :
                     \A k \in GenParams :
                         router.sent[n].params[k] =
                             ProviderDefaults(router.sent[n].provider)[k])

\* A second call, without overrides, has sent its request after the first
\* call sent one with overrides.
C29_Witness ==
    /\ router.calls = 2
    /\ router.overridden
    /\ router.overrides = NoOverrides
    /\ router.pc = "returned"
    /\ Len(router.sent) = 1
    /\ router.sent[1].params["temperature"] = 70

\* The recognised entities of allowed types.
AllowedEnts(ents) == { e \in ents : e.label \in entity_types }

\* The text from pos on with the spans of ents replaced by masks, the
\* leftmost of k remaining spans carrying number k.
RECURSIVE Rebuild(_, _, _)
Rebuild(text, pos, ents) ==
    IF ents = {} THEN SubSeq(text, pos + 1, Len(text))
    ELSE LET e == CHOOSE x \in ents : \A y \in ents : x.start <= y.start
         IN  SubSeq(text, pos + 1, e.start)
             \o MaskChars(e.label, Cardinality(ents))
             \o Rebuild(text, e.end, ents \ {e})

\* sub occurs in t as a contiguous run of characters.
Occurs(sub, t) ==
    \E i \in 1..(Len(t) - Len(sub) + 1) : SubSeq(t, i, i + Len(sub) - 1) = sub

C26_NoSurfaceForm ==
    masking.pc = "called" =>
        \A i \in 1..Len(masking.entities) :
            ~Occurs(masking.entities[i].text, masking.masked_text)

\* C22: the similarity search returns no item whose score is below
\* min_score and no more than top_k items, for every index content and every
\* query.
C22_SearchFiltered ==
    (vector.pc = "ready" /\ vector.last.op = "search") =>
        /\ Len(vector.last.hits) <= vector.last.top_k
        /\ \A i \in 1..Len(vector.last.hits) :
              vector.last.hits[i].score >= vector.last.min_score

\* The part of C22 about process(): at most max_similar_items items, each
\* with a score of at least similarity_threshold.
C22_ProcessSimilar ==
    \A r \in Requests :
        /\ Len(run[r].similar_items) <= max_similar_items
        /\ \A i \in 1..Len(run[r].similar_items) :
              run[r].similar_items[i].score >= similarity_threshold

\* C23: upsert and search never raise; when the backing index fails, upsert
\* returns false and leaves the collections as they were, and search returns
\* the empty sequence.
C23_NeverRaises ==
    /\ [](vector.pc = "ready" /\ vector.last.op # "none" =>
            /\ ~vector.last.raised
            /\ (vector.last.op = "upsert" /\ vector.last.backend # "ok")
                  => ~vector.last.success
            /\ (vector.last.op = "search" /\ vector.last.backend # "ok")
                  => vector.last.hits = <<>>)
    /\ [][(vector.pc = "ready" /\ vector'.last.op = "upsert" /\ ~vector'.last.success)
            => vector'.collections = vector.collections]_vars

\* An upsert into a collection that holds a point has failed on an
\* unreachable backend.
C23_Witness ==
    /\ vector.pc = "ready"
    /\ vector.last.op = "upsert"
    /\ vector.last.backend = "unreachable"
    /\ ~vector.last.success
    /\ vector.collections[vector.last.name] # NoCollection
    /\ \E i \in PointIds : vector.collections[vector.last.name].points[i] # NoPoint

\* C24: ensure_collection for a name that exists returns true, the backend
\* answering, and creates or alters no collection, so repeated calls leave
\* the one collection of that name as it was.
C24_EnsureIdempotent ==
    /\ [](vector.pc = "ready" /\ vector.last.op = "ensure_collection" =>
            /\ (vector.last.existed /\ vector.last.backend = "ok")
                  => vector.last.success
            /\ vector.last.success => vector.collections[vector.last.name] # NoCollection)
    /\ [][(/\ vector.pc = "ready"
           /\ vector'.last.op = "ensure_collection"
           /\ vector.collections[vector'.last.name] # NoCollection)
            => vector'.collections = vector.collections]_vars

\* ensure_collection has returned true for a collection that existed and
\* holds a point.
C24_Witness ==
    /\ vector.pc = "ready"
    /\ vector.last.op = "ensure_collection"
    /\ vector.last.existed
    /\ vector.last.success
    /\ \E i \in PointIds : vector.collections[vector.last.name].points[i] # NoPoint

\* C27: the confidence of the analysis analyze_with_llm returns, and the
\* confidence stored on a row, lie between 0.0 and 1.0 (0 and 100
\* hundredths) for any LLM response.
C27_ConfidenceBound ==
    /\ \A r \in Requests :
          run[r].analysis.confidence >= 0 /\ run[r].analysis.confidence <= 100
    /\ \A id \in RowIds :
          store[id] # NoRow =>
              store[id].confidence >= 0 /\ store[id].confidence <= 100

\* C30: a request whose text is empty or only whitespace is accepted with a
\* pending record; its background run makes no masking, embedding, search,
\* LLM or meme-enqueue call and creates no further record; the record stays
\* pending until the run writes its outcome, and once that write is
\* committed the record has status error with the invalid-input message.
C30_BlankTextRun ==
    \A r \in Requests :
        (response[r].code = 202 /\ AllSpaces(response[r].original_text)) =>
            LET row == store[AcceptId(r)]
            IN  /\ response[r].status = "pending" /\ response[r].id = AcceptId(r)
                /\ row # NoRow /\ row.original_text = run[r].text
                /\ run[r].stages = <<>>
                /\ run[r].attempts = 0 /\ run[r].delays = 0 /\ run[r].enqueues = 0
                /\ run[r].adds = 0
                /\ store[PipelineId(r)] = NoRow
                /\ run[r].updated = "none" /\ run[r].pc \notin {"exit", "done", "raised"}
                      => row.status = "pending"
                /\ run[r].updated = "ok"
                      => row.status = "error" /\ row.error = EmptyTextMsg

\* The run of an accepted empty text has ended and its record carries the
\* invalid-input message.
C30_Witness ==
    \E r \in Requests :
        /\ response[r].code = 202
        /\ response[r].original_text = <<>>
        /\ run[r].pc = "done"
        /\ run[r].updated = "ok"
        /\ store[AcceptId(r)].status = "error"
        /\ store[AcceptId(r)].error = EmptyTextMsg
        /\ memeQueue = {}

\* C28: a background run that has started ends, by completion or by
\* failure, every call it awaits returning or failing; the attempts of the
\* LLM call never exceed the retry bound; and when the run has ended and its
\* last write was committed, the owning record is no longer pending.
C28_RunTerminates ==
    /\ \A r \in Requests :
          (run[r].pc = "scheduled") ~> (run[r].pc \in {"done", "raised"})
    /\ [](\A r \in Requests : run[r].attempts <= MaxAttempts)
    /\ [](\A r \in Requests :
            (run[r].pc = "done" /\ run[r].bound) =>
                store[run[r].detox_id].status \in {"completed", "error"})

\* A run has ended after three failed attempts of the LLM call and a failed
\* commit of its outcome, the record written by the except branch.
C28_Witness ==
    \E r \in Requests :
        /\ run[r].pc = "done"
        /\ run[r].llm = "failed"
        /\ run[r].updated = "failed"
        /\ store[run[r].detox_id].status = "error"

====
